---- MODULE Spec2Model ----
(***************************************************************************)
(* Model of the logspout fluentd adapter (fluentd/adapter.go).             *)
(*                                                                         *)
(*   Adapter.Stream  - the consumption loop over the logstream channel     *)
(*   NewAdapter      - construction of the adapter from a route and the    *)
(*                     process environment                                 *)
(*                                                                         *)
(* Go strings that the code only compares and concatenates (tags, host     *)
(* names, label values, ids) are TLA+ strings.  Strings that the code      *)
(* scans character by character are sequences: the message payload is a    *)
(* sequence of code points (matched by the regular expression), addresses  *)
(* and numeric environment values are sequences of one-character strings   *)
(* (split and parsed by net.SplitHostPort and strconv.Atoi).               *)
(***************************************************************************)
EXTENDS Integers, Sequences, FiniteSets, TLC

VARIABLES
    \* ---- Adapter.Stream
    ad,           \* the Adapter struct: tagPrefix, tagSuffixLabel
    logstream,    \* messages in the channel, not yet received
    closed,       \* the channel has been closed by the host
    sent,         \* number of messages the host has sent on the channel
    received,     \* messages the range loop has received, in order
    writerCalls,  \* calls made on ad.writer (the fluent client), in order
    logs,         \* lines written with log.Println, in order
    trace,        \* log lines, PostWithTime calls and their returns, in order
    pc,           \* position of Stream: "range", "PostWithTime", "returned"
    \* ---- NewAdapter
    route,        \* the router.Route argument
    transports,   \* names registered in router.AdapterTransports
    env,          \* the process environment
    npc,          \* position of NewAdapter
    steps,        \* construction steps executed so far, with their outcome
    locals,       \* local variables of NewAdapter assigned so far
    ret           \* the pair NewAdapter returned

streamVars == <<ad, logstream, closed, sent, received, writerCalls, logs, trace, pc>>
newVars    == <<route, transports, env, npc, steps, locals, ret>>
vars       == <<ad, logstream, closed, sent, received, writerCalls, logs, trace, pc,
                route, transports, env, npc, steps, locals, ret>>

(***************************************************************************)
(* Bounds                                                                  *)
(***************************************************************************)
MaxMsgs == 2    \* messages the host sends before it closes the channel
ChanCap == 2    \* messages the channel holds between sender and receiver
MaxEnvSet == 2  \* environment variables that are set when NewAdapter runs

(***************************************************************************)
(* Code points used in payloads                                            *)
(***************************************************************************)
TAB  == 9
LF   == 10
VT   == 11
FF   == 12
CR   == 13
SP   == 32

\* The POSIX class [[:space:]] of the pattern on line 61 (RE2: ASCII only).
SpaceClass == {TAB, LF, VT, FF, CR, SP}

(***************************************************************************)
(* Messages (router.Message and the docker container it points to)         *)
(***************************************************************************)
NoLabels == <<>>

ContainerValues ==
    { [ID |-> "id1", Name |-> "/web",  Config |-> [Hostname |-> "h1", Labels |-> ("svc" :> "web")]],
      [ID |-> "id2", Name |-> "/db",   Config |-> [Hostname |-> "h2", Labels |-> ("svc" :> "")]],
      [ID |-> "id3", Name |-> "/bare", Config |-> [Hostname |-> "",   Labels |-> NoLabels]] }

\* Payloads: empty, whitespace, "a", " a\n", and a no-break space (U+00A0),
\* which is outside the ASCII class.
DataValues ==
    { <<>>, <<SP, TAB, LF>>, <<97>>, <<SP, 97, LF>>, <<160>> }

MsgValues ==
    { [Data |-> d, Time |-> 1, Source |-> "stdout", Container |-> c] :
          d \in DataValues, c \in {x \in ContainerValues : x.ID = "id1"} }
    \cup
    { [Data |-> <<97>>, Time |-> 2, Source |-> "stderr", Container |-> c] :
          c \in ContainerValues }

AdapterValues ==
    [tagPrefix : {"", "docker"}, tagSuffixLabel : {"", "svc"}]

(***************************************************************************)
(* Adapter.Stream                                                          *)
(***************************************************************************)

\* Variant: the pattern written with + instead of *.
messageIsEmpty_Plus(data) ==
    \E k \in 1..Len(data) :
        /\ \A i \in 1..k : data[i] \in SpaceClass
        /\ k = Len(data)

\* Variant: the pattern written without the end-of-text anchor.
messageIsEmpty_NoEndAnchor(data) ==
    \E k \in 0..Len(data) :
        \A i \in 1..k : data[i] \in SpaceClass

\* regexp.MatchString("^[[:space:]]*$", data): the match starts at the
\* beginning of the text, the starred class consumes k characters, and the
\* end-of-text assertion must hold where it stops.
messageIsEmpty(data) ==
    \E k \in 0..Len(data) :
        /\ \A i \in 1..k : data[i] \in SpaceClass
        /\ k = Len(data)

\* Go map index: the zero value when the key is absent.
MapIndex(m, key) == IF key \in DOMAIN m THEN m[key] ELSE ""

\* Variant: the hostname fallback taken only when the label is absent.
Tag_FallbackOnAbsentOnly(a, message) ==
    LET labels == message.Container.Config.Labels
        suffix == IF a.tagSuffixLabel \in DOMAIN labels
                  THEN labels[a.tagSuffixLabel]
                  ELSE message.Container.Config.Hostname
    IN  a.tagPrefix \o "." \o suffix

\* Lines 68-76.
Tag(a, message) ==
    LET tag0      == ""
        tag1      == IF Len(a.tagPrefix) > 0 THEN a.tagPrefix ELSE tag0
        tagSuffix == MapIndex(message.Container.Config.Labels, a.tagSuffixLabel)
        suffix    == IF tagSuffix = "" THEN message.Container.Config.Hostname
                                       ELSE tagSuffix
    IN  tag1 \o "." \o suffix

\* Variant: the container name written under both container keys.
Record_NameAsId(message) ==
    [k \in {"log", "container_id", "container_name", "source"} |->
        CASE k = "log"            -> message.Data
          [] k = "container_id"   -> message.Container.Name
          [] k = "container_name" -> message.Container.Name
          [] k = "source"         -> message.Source]

\* Lines 79-84.
Record(message) ==
    [k \in {"log", "container_id", "container_name", "source"} |->
        CASE k = "log"            -> message.Data
          [] k = "container_id"   -> message.Container.ID
          [] k = "container_name" -> message.Container.Name
          [] k = "source"         -> message.Source]

\* The host sends a message on the channel.
Send(m) ==
    /\ ~closed
    /\ sent < MaxMsgs
    /\ Len(logstream) < ChanCap
    /\ logstream' = Append(logstream, m)
    /\ sent' = sent + 1
    /\ UNCHANGED <<ad, closed, received, writerCalls, logs, trace, pc>>
    /\ UNCHANGED newVars

\* The host closes the channel.
Close ==
    /\ ~closed
    /\ closed' = TRUE
    /\ UNCHANGED <<ad, logstream, sent, received, writerCalls, logs, trace, pc>>
    /\ UNCHANGED newVars

\* Variant: a message equal to one received before is dropped.
StreamIterate_Dedup ==
    /\ pc = "range"
    /\ logstream # <<>>
    /\ LET message == Head(logstream)
           n       == Len(received) + 1
       IN  /\ logstream' = Tail(logstream)
           /\ received' = Append(received, message)
           /\ IF \E k \in DOMAIN received : received[k] = message
              THEN UNCHANGED <<writerCalls, logs, trace, pc>>
              ELSE IF messageIsEmpty(message.Data)
              THEN /\ logs' = Append(logs, [kind |-> "skip", n |-> n])
                   /\ trace' = Append(trace, [ev |-> "log", kind |-> "skip", n |-> n])
                   /\ UNCHANGED <<writerCalls, pc>>
              ELSE LET tag    == Tag(ad, message)
                       record == Record(message)
                   IN  /\ logs' = Append(logs,
                              [kind |-> "send", n |-> n, tag |-> tag,
                               time |-> message.Time, record |-> record])
                       /\ writerCalls' = Append(writerCalls,
                              [method |-> "PostWithTime", n |-> n, tag |-> tag,
                               time |-> message.Time, record |-> record])
                       /\ trace' = trace \o
                              << [ev |-> "log", kind |-> "send", n |-> n],
                                 [ev |-> "call", n |-> n] >>
                       /\ pc' = "PostWithTime"
    /\ UNCHANGED <<ad, closed, sent>>
    /\ UNCHANGED newVars

\* Variant: the pre-send line is written after the PostWithTime call.
StreamIterate_LogAfterPost ==
    /\ pc = "range"
    /\ logstream # <<>>
    /\ LET message == Head(logstream)
           n       == Len(received) + 1
       IN  /\ logstream' = Tail(logstream)
           /\ received' = Append(received, message)
           /\ IF messageIsEmpty(message.Data)
              THEN /\ logs' = Append(logs, [kind |-> "skip", n |-> n])
                   /\ trace' = Append(trace, [ev |-> "log", kind |-> "skip", n |-> n])
                   /\ UNCHANGED <<writerCalls, pc>>
              ELSE LET tag    == Tag(ad, message)
                       record == Record(message)
                   IN  /\ logs' = Append(logs,
                              [kind |-> "send", n |-> n, tag |-> tag,
                               time |-> message.Time, record |-> record])
                       /\ writerCalls' = Append(writerCalls,
                              [method |-> "PostWithTime", n |-> n, tag |-> tag,
                               time |-> message.Time, record |-> record])
                       /\ trace' = trace \o
                              << [ev |-> "call", n |-> n],
                                 [ev |-> "log", kind |-> "send", n |-> n] >>
                       /\ pc' = "PostWithTime"
    /\ UNCHANGED <<ad, closed, sent>>
    /\ UNCHANGED newVars

\* One iteration of the range loop, from the receive up to either the
\* `continue` of line 64 or the call of PostWithTime on line 88.
StreamIterate ==
    /\ pc = "range"
    /\ logstream # <<>>
    /\ LET message == Head(logstream)
           n       == Len(received) + 1
       IN  /\ logstream' = Tail(logstream)
           /\ received' = Append(received, message)
           /\ IF messageIsEmpty(message.Data)
              THEN /\ logs' = Append(logs, [kind |-> "skip", n |-> n])
                   /\ trace' = Append(trace, [ev |-> "log", kind |-> "skip", n |-> n])
                   /\ UNCHANGED <<writerCalls, pc>>
              ELSE LET tag    == Tag(ad, message)
                       record == Record(message)
                   IN  /\ logs' = Append(logs,
                              [kind |-> "send", n |-> n, tag |-> tag,
                               time |-> message.Time, record |-> record])
                       /\ writerCalls' = Append(writerCalls,
                              [method |-> "PostWithTime", n |-> n, tag |-> tag,
                               time |-> message.Time, record |-> record])
                       /\ trace' = trace \o
                              << [ev |-> "log", kind |-> "send", n |-> n],
                                 [ev |-> "call", n |-> n] >>
                       /\ pc' = "PostWithTime"
    /\ UNCHANGED <<ad, closed, sent>>
    /\ UNCHANGED newVars

\* PostWithTime returns nil: the loop goes to its next iteration.
PostWithTimeOk ==
    /\ pc = "PostWithTime"
    /\ trace' = Append(trace, [ev |-> "return", n |-> Len(received), err |-> FALSE])
    /\ pc' = "range"
    /\ UNCHANGED <<ad, logstream, closed, sent, received, writerCalls, logs>>
    /\ UNCHANGED newVars

\* Variant: the error branch returns from Stream instead of continuing.
PostWithTimeErr_Return ==
    /\ pc = "PostWithTime"
    /\ logs' = Append(logs, [kind |-> "error", n |-> Len(received)])
    /\ trace' = trace \o
           << [ev |-> "return", n |-> Len(received), err |-> TRUE],
              [ev |-> "log", kind |-> "error", n |-> Len(received)] >>
    /\ pc' = "returned"
    /\ UNCHANGED <<ad, logstream, closed, sent, received, writerCalls>>
    /\ UNCHANGED newVars

\* Variant: the error branch posts the same record once more.
PostWithTimeErr_Retry ==
    /\ pc = "PostWithTime"
    /\ logs' = Append(logs, [kind |-> "error", n |-> Len(received)])
    /\ writerCalls' = Append(writerCalls, writerCalls[Len(writerCalls)])
    /\ trace' = trace \o
           << [ev |-> "return", n |-> Len(received), err |-> TRUE],
              [ev |-> "log", kind |-> "error", n |-> Len(received)],
              [ev |-> "call", n |-> Len(received)] >>
    /\ pc' = "range"
    /\ UNCHANGED <<ad, logstream, closed, sent, received>>
    /\ UNCHANGED newVars

\* PostWithTime returns an error: lines 89-92.
PostWithTimeErr ==
    /\ pc = "PostWithTime"
    /\ logs' = Append(logs, [kind |-> "error", n |-> Len(received)])
    /\ trace' = trace \o
           << [ev |-> "return", n |-> Len(received), err |-> TRUE],
              [ev |-> "log", kind |-> "error", n |-> Len(received)] >>
    /\ pc' = "range"
    /\ UNCHANGED <<ad, logstream, closed, sent, received, writerCalls>>
    /\ UNCHANGED newVars

\* Variant: Stream closes the client before it returns.
StreamReturn_CloseWriter ==
    /\ pc = "range"
    /\ closed
    /\ logstream = <<>>
    /\ writerCalls' = Append(writerCalls, [method |-> "Close"])
    /\ pc' = "returned"
    /\ UNCHANGED <<ad, logstream, closed, sent, received, logs, trace>>
    /\ UNCHANGED newVars

\* Variant: Stream returns when it finds the channel empty.
StreamReturn_OnEmpty ==
    /\ pc = "range"
    /\ logstream = <<>>
    /\ pc' = "returned"
    /\ UNCHANGED <<ad, logstream, closed, sent, received, writerCalls, logs, trace>>
    /\ UNCHANGED newVars

\* The channel is closed and drained: the range loop ends, Stream returns.
StreamReturn ==
    /\ pc = "range"
    /\ closed
    /\ logstream = <<>>
    /\ pc' = "returned"
    /\ UNCHANGED <<ad, logstream, closed, sent, received, writerCalls, logs, trace>>
    /\ UNCHANGED newVars

\* State of the NewAdapter variables while Stream is under study.
NewIdle ==
    /\ route = [Adapter |-> "fluentd", Address |-> <<>>]
    /\ transports = {}
    /\ env = <<>>
    /\ npc = "idle"
    /\ steps = <<>>
    /\ locals = <<>>
    /\ ret = <<>>

Init ==
    /\ ad \in AdapterValues
    /\ logstream = <<>>
    /\ closed = FALSE
    /\ sent = 0
    /\ received = <<>>
    /\ writerCalls = <<>>
    /\ logs = <<>>
    /\ trace = <<>>
    /\ pc = "range"
    /\ NewIdle

Next ==
    \/ \E m \in MsgValues : Send(m)
    \/ Close
    \/ StreamIterate
    \/ PostWithTimeOk
    \/ PostWithTimeErr
    \/ StreamReturn

Spec == Init /\ [][Next]_vars

\* The Go scheduler runs the Stream goroutine whenever it can take a step,
\* and the delivery client returns from every call.
FairSpec ==
    /\ Spec
    /\ WF_vars(StreamIterate)
    /\ WF_vars(PostWithTimeOk \/ PostWithTimeErr)
    /\ WF_vars(StreamReturn)

(***************************************************************************)
(* Properties of Adapter.Stream                                            *)
(***************************************************************************)

\* A payload made of whitespace characters only (the empty payload included).
WhitespaceOnly(data) == \A i \in DOMAIN data : data[i] \in SpaceClass

\* The PostWithTime calls made for the n-th received message.
PostsFor(n) ==
    { i \in DOMAIN writerCalls :
          writerCalls[i].method = "PostWithTime" /\ writerCalls[i].n = n }

SkipLogged(n)  == \E i \in DOMAIN logs : logs[i].kind = "skip"  /\ logs[i].n = n
ErrorLogged(n) == \E i \in DOMAIN logs : logs[i].kind = "error" /\ logs[i].n = n

\* The n-th message has been through the filter and, when it is not
\* whitespace, has been tagged and handed to PostWithTime.
Processed(n) ==
    /\ n <= Len(received)
    /\ IF WhitespaceOnly(received[n].Data) THEN SkipLogged(n)
                                           ELSE PostsFor(n) # {}

\* C1: whenever PostWithTime reported a failure for message n and a message
\* n+1 has been sent on the stream, Stream goes on to process message n+1.
LoopContinuation ==
    \A n \in 1..MaxMsgs : (ErrorLogged(n) /\ sent > n) ~> Processed(n + 1)

LoopContinuationWitness ==
    /\ ErrorLogged(1)
    /\ Len(received) >= 2
    /\ PostsFor(2) # {}

\* C2: a received message whose payload is whitespace only gets no
\* PostWithTime call and a skip log line, and two messages with the same
\* payload get the same decision.
WhitespaceSkipped ==
    /\ \A n \in DOMAIN received :
          WhitespaceOnly(received[n].Data) => PostsFor(n) = {} /\ SkipLogged(n)
    /\ \A n, k \in DOMAIN received :
          received[n].Data = received[k].Data => (SkipLogged(n) <=> SkipLogged(k))

WhitespaceSkippedWitness ==
    \E n, k \in DOMAIN received :
        /\ received[n].Data = <<>>
        /\ received[k].Data = <<SP, TAB, LF>>
        /\ SkipLogged(n) /\ SkipLogged(k)
        /\ writerCalls = <<>>

\* The suffix the tag must carry: the label value when the configured label
\* is present and non-empty, the container hostname otherwise.
ExpectedSuffix(message) ==
    LET labels == message.Container.Config.Labels
    IN  IF ad.tagSuffixLabel \in DOMAIN labels /\ labels[ad.tagSuffixLabel] # ""
        THEN labels[ad.tagSuffixLabel]
        ELSE message.Container.Config.Hostname

\* C3: the tag of every PostWithTime call is prefix, ".", suffix, with the
\* separator kept when the prefix or the suffix is empty.
TagIsPrefixDotSuffix ==
    \A i \in DOMAIN writerCalls :
        writerCalls[i].method = "PostWithTime" =>
            writerCalls[i].tag =
                ad.tagPrefix \o "." \o ExpectedSuffix(received[writerCalls[i].n])

TagIsPrefixDotSuffixWitness ==
    /\ ad.tagPrefix = ""
    /\ ad.tagSuffixLabel = "svc"
    /\ \E i, j \in DOMAIN writerCalls :
          /\ writerCalls[i].tag = ".web"
          /\ writerCalls[j].tag = ".h2"

\* C4: every received message has exactly one PostWithTime call when it is
\* not whitespace and none when it is, and Stream puts nothing back on the
\* channel: what was sent is either still queued or was received once.
AtMostOnce ==
    /\ \A n \in DOMAIN received :
          Cardinality(PostsFor(n)) =
              IF WhitespaceOnly(received[n].Data) THEN 0 ELSE 1
    /\ Len(received) + Len(logstream) = sent

AtMostOnceWitness ==
    /\ pc = "returned"
    /\ ErrorLogged(1)
    /\ Cardinality(PostsFor(1)) = 1
    /\ Len(received) >= 2

\* The positions in `received` of the messages that are not whitespace.
NonWhitespaceIndices ==
    SelectSeq([n \in DOMAIN received |-> n],
              LAMBDA n : ~WhitespaceOnly(received[n].Data))

\* C5: the PostWithTime calls are, in order, the received messages that
\* are not whitespace.
OrderPreserved ==
    /\ [i \in DOMAIN writerCalls |-> writerCalls[i].n] = NonWhitespaceIndices
    /\ \A i \in DOMAIN writerCalls :
          /\ writerCalls[i].record["log"] = received[writerCalls[i].n].Data
          /\ writerCalls[i].time = received[writerCalls[i].n].Time

OrderPreservedWitness ==
    /\ Len(writerCalls) >= 2
    /\ ErrorLogged(writerCalls[1].n)
    /\ writerCalls[1].time # writerCalls[2].time

\* Stream has returned with every sent message processed and with no call
\* on the client other than PostWithTime.
ReturnedClean ==
    /\ logstream = <<>>
    /\ Len(received) = sent
    /\ \A n \in DOMAIN received : Processed(n)
    /\ \A i \in DOMAIN writerCalls : writerCalls[i].method = "PostWithTime"

\* C6: once the stream is closed Stream eventually returns, and when it has
\* returned every message sent before the close has been processed and the
\* client has been neither flushed nor closed.
TerminationOnClose ==
    /\ closed ~> (pc = "returned")
    /\ [](pc = "returned" => ReturnedClean)

TerminationOnCloseWitness ==
    /\ pc = "returned"
    /\ sent >= 2
    /\ \E n \in DOMAIN received : PostsFor(n) # {}
    /\ \E n \in DOMAIN received : SkipLogged(n)

\* C7: the record of every PostWithTime call has exactly the keys log,
\* container_id, container_name and source, holding the message's payload,
\* container ID, container name and source unchanged, and the call's
\* timestamp is the message's timestamp.
RecordVerbatim ==
    \A i \in DOMAIN writerCalls :
        LET call    == writerCalls[i]
            message == received[call.n]
        IN  /\ DOMAIN call.record = {"log", "container_id", "container_name", "source"}
            /\ call.record["log"] = message.Data
            /\ call.record["container_id"] = message.Container.ID
            /\ call.record["container_name"] = message.Container.Name
            /\ call.record["source"] = message.Source
            /\ call.time = message.Time

RecordVerbatimWitness ==
    \E i \in DOMAIN writerCalls :
        /\ writerCalls[i].record["log"] = <<SP, 97, LF>>
        /\ writerCalls[i].record["source"] = "stdout"
        /\ writerCalls[i].time = 1

(***************************************************************************)
(* NewAdapter                                                              *)
(***************************************************************************)

Nil == [type |-> "nil"]

\* errors.New(msg + arg)
ErrorsNew(msg, arg) == [type |-> "errorString", msg |-> msg, arg |-> arg]

\* errors.Wrapf(err, msg, arg...), called with a non-nil err
Wrapf(err, msg, arg) == [type |-> "withMessage", msg |-> msg, arg |-> arg, cause |-> err]

\* strconv's syntax error for function fn applied to str
NumError(fn, str) == [type |-> "NumError", Func |-> fn, Num |-> str, Err |-> "invalid syntax"]

\* net.AddrError
AddrError(why, addr) == [type |-> "AddrError", Err |-> why, Addr |-> addr]

\* The error a failed transport.Dial reports.
DialError == [type |-> "OpError", Op |-> "dial"]

\* The error a failed fluent.New reports.
ConnectError == [type |-> "OpError", Op |-> "connect"]

Digits == <<"0", "1", "2", "3", "4", "5", "6", "7", "8", "9">>

IsDigit(ch) == \E d \in DOMAIN Digits : Digits[d] = ch

DigitValue(ch) == (CHOOSE d \in DOMAIN Digits : Digits[d] = ch) - 1

\* strconv.Itoa for n >= 0
RECURSIVE Itoa(_)
Itoa(n) == IF n < 10 THEN <<Digits[n + 1]>>
                     ELSE Append(Itoa(n \div 10), Digits[(n % 10) + 1])

\* The accumulation loop of strconv.Atoi over the digits of s.
RECURSIVE AtoiDigits(_, _)
AtoiDigits(s, n) ==
    IF s = <<>> THEN n ELSE AtoiDigits(Tail(s), n * 10 + DigitValue(Head(s)))

\* strconv.Atoi(s) for the short strings of this model: <<value, error>>.
Atoi(s) ==
    IF Len(s) = 0 THEN <<0, NumError("Atoi", s)>>
    ELSE LET signed == s[1] = "-" \/ s[1] = "+"
             body   == IF signed THEN Tail(s) ELSE s
         IN  IF Len(body) < 1 \/ \E i \in DOMAIN body : ~IsDigit(body[i])
             THEN <<0, NumError("Atoi", s)>>
             ELSE <<(IF s[1] = "-" THEN -1 ELSE 1) * AtoiDigits(body, 0), Nil>>

\* strconv.ParseBool(str): <<value, error>>.
ParseBool(str) ==
    IF str \in {"1", "t", "T", "TRUE", "true", "True"} THEN <<TRUE, Nil>>
    ELSE IF str \in {"0", "f", "F", "FALSE", "false", "False"} THEN <<FALSE, Nil>>
    ELSE <<FALSE, NumError("ParseBool", str)>>

\* Position of the last ch in s, 0 when there is none.
LastIndex(s, ch) ==
    IF \E i \in DOMAIN s : s[i] = ch
    THEN CHOOSE i \in DOMAIN s : s[i] = ch /\ \A j \in (i + 1)..Len(s) : s[j] # ch
    ELSE 0

\* Position of the first ch in s, 0 when there is none.
IndexByte(s, ch) ==
    IF \E i \in DOMAIN s : s[i] = ch
    THEN CHOOSE i \in DOMAIN s : s[i] = ch /\ \A j \in 1..(i - 1) : s[j] # ch
    ELSE 0

\* net.SplitHostPort(hostport): <<host, port, error>>.
SplitHostPort(hostport) ==
    LET fail(why) == <<<<>>, <<>>, AddrError(why, hostport)>>
        i         == LastIndex(hostport, ":")
        bracket   == hostport[1] = "["
        end       == IndexByte(hostport, "]")
        host      == IF bracket THEN SubSeq(hostport, 2, end - 1)
                                ELSE SubSeq(hostport, 1, i - 1)
        j         == IF bracket THEN 2 ELSE 1
        k         == IF bracket THEN end + 1 ELSE 1
        rest      == IF IndexByte(SubSeq(hostport, j, Len(hostport)), "[") > 0
                     THEN fail("unexpected '[' in address")
                     ELSE IF IndexByte(SubSeq(hostport, k, Len(hostport)), "]") > 0
                     THEN fail("unexpected ']' in address")
                     ELSE <<host, SubSeq(hostport, i + 1, Len(hostport)), Nil>>
    IN  IF i = 0 THEN fail("missing port in address")
        ELSE IF bracket
        THEN IF end = 0 THEN fail("missing ']' in address")
             ELSE IF end = Len(hostport) THEN fail("missing port in address")
             ELSE IF end + 1 = i THEN rest
             ELSE IF hostport[end + 1] = ":" THEN fail("too many colons in address")
             ELSE fail("missing port in address")
        ELSE IF IndexByte(host, ":") > 0 THEN fail("too many colons in address")
             ELSE rest

\* route.AdapterTransport(dfault): the part of route.Adapter after "+".
AdapterTransport(r, dfault) ==
    CASE r.Adapter = "fluentd"     -> dfault
      [] r.Adapter = "fluentd+udp" -> "udp"
      [] r.Adapter = "fluentd+foo" -> "foo"

\* os.Getenv(key): the empty string when the variable is not set.
Getenv(key) == env[key].val

\* Variant: the value is returned even when it is empty.
getenv_NoFallback(key, fallback) == Getenv(key)

\* Lines 42-48.
getenv(key, fallback) ==
    LET value == Getenv(key)
    IN  IF Len(value) = 0 THEN fallback ELSE value

defaultProtocol    == "tcp"
defaultBufferLimit == 1024 * 1024
defaultRetryWait   == 1000
defaultMaxRetries  == 2147483647

\* The construction steps in program order.
StepOrder ==
    << "Lookup", "Dial", "ParseAddress", "FLUENTD_BUFFER_LIMIT",
       "FLUENTD_RETRY_WAIT", "FLUENTD_MAX_RETRIES", "FLUENTD_ASYNC_CONNECT",
       "FLUENTD_SUBSECOND_PRECISION", "New" >>

\* `return nil, err` after the step named step.
Fail(step, err) ==
    /\ steps' = Append(steps, [step |-> step, ok |-> FALSE])
    /\ ret' = [adapter |-> Nil, err |-> err]
    /\ npc' = "returned"
    /\ UNCHANGED locals

\* The step named step succeeded and assigned the locals in assigned.
Proceed(step, assigned, next) ==
    /\ steps' = Append(steps, [step |-> step, ok |-> TRUE])
    /\ locals' = assigned @@ locals
    /\ npc' = next
    /\ UNCHANGED ret

\* Lines 98-101.
Lookup ==
    /\ npc = "Lookup"
    /\ IF AdapterTransport(route, "tcp") \in transports
       THEN Proceed("Lookup", <<>>, "Dial")
       ELSE Fail("Lookup", ErrorsNew("Unable to find adapter: ", route.Adapter))
    /\ UNCHANGED <<route, transports, env>>
    /\ UNCHANGED streamVars

\* Lines 102-106, the dial succeeds.
DialOk ==
    /\ npc = "Dial"
    /\ Proceed("Dial", <<>>, "ParseAddress")
    /\ UNCHANGED <<route, transports, env>>
    /\ UNCHANGED streamVars

\* Variant: the dial error is wrapped before it is returned.
DialErr_Wrapped ==
    /\ npc = "Dial"
    /\ Fail("Dial", Wrapf(DialError, "Unable to connect to ", route.Address))
    /\ UNCHANGED <<route, transports, env>>
    /\ UNCHANGED streamVars

\* Lines 102-105, the dial fails.
DialErr ==
    /\ npc = "Dial"
    /\ Fail("Dial", DialError)
    /\ UNCHANGED <<route, transports, env>>
    /\ UNCHANGED streamVars

\* Variant: only the err of SplitHostPort is checked, the err of Atoi is not.
ParseAddress_SplitErrOnly ==
    /\ npc = "ParseAddress"
    /\ LET split == SplitHostPort(route.Address)
       IN  IF split[3] # Nil
           THEN Fail("ParseAddress",
                     Wrapf(split[3], "Invalid fluentd-address ", route.Address))
           ELSE Proceed("ParseAddress",
                        ("host" :> split[1]) @@ ("portNum" :> Atoi(split[2])[1]),
                        "FLUENTD_BUFFER_LIMIT")
    /\ UNCHANGED <<route, transports, env>>
    /\ UNCHANGED streamVars

\* Lines 109-113: err of SplitHostPort is overwritten by the err of Atoi.
ParseAddress ==
    /\ npc = "ParseAddress"
    /\ LET split   == SplitHostPort(route.Address)
           host    == split[1]
           port    == split[2]
           parsed  == Atoi(port)
           portNum == parsed[1]
           err     == parsed[2]
       IN  IF err # Nil
           THEN Fail("ParseAddress",
                     Wrapf(err, "Invalid fluentd-address ", route.Address))
           ELSE Proceed("ParseAddress",
                        ("host" :> host) @@ ("portNum" :> portNum),
                        "FLUENTD_BUFFER_LIMIT")
    /\ UNCHANGED <<route, transports, env>>
    /\ UNCHANGED streamVars

\* Variant: the parse error is dropped and construction goes on.
ParseIntEnv_IgnoreErr(key, dflt, local, next) ==
    /\ npc = key
    /\ LET parsed == Atoi(getenv(key, Itoa(dflt)))
       IN  /\ steps' = Append(steps, [step |-> key, ok |-> parsed[2] = Nil])
           /\ locals' = (local :> parsed[1]) @@ locals
           /\ npc' = next
           /\ UNCHANGED ret
    /\ UNCHANGED <<route, transports, env>>
    /\ UNCHANGED streamVars

\* strconv.Atoi(getenv(key, strconv.Itoa(dflt))) followed by the error check.
ParseIntEnv(key, dflt, local, next) ==
    /\ npc = key
    /\ LET parsed == Atoi(getenv(key, Itoa(dflt)))
       IN  IF parsed[2] # Nil
           THEN Fail(key, parsed[2])
           ELSE Proceed(key, local :> parsed[1], next)
    /\ UNCHANGED <<route, transports, env>>
    /\ UNCHANGED streamVars

\* Variant: the parse error is dropped and construction goes on.
ParseBoolEnv_IgnoreErr(key, local, next) ==
    /\ npc = key
    /\ LET parsed == ParseBool(getenv(key, "false"))
       IN  /\ steps' = Append(steps, [step |-> key, ok |-> TRUE])
           /\ locals' = (local :> parsed[1]) @@ locals
           /\ npc' = next
           /\ UNCHANGED ret
    /\ UNCHANGED <<route, transports, env>>
    /\ UNCHANGED streamVars

\* strconv.ParseBool(getenv(key, "false")) followed by the error check.
ParseBoolEnv(key, local, next) ==
    /\ npc = key
    /\ LET parsed == ParseBool(getenv(key, "false"))
       IN  IF parsed[2] # Nil
           THEN Fail(key, parsed[2])
           ELSE Proceed(key, local :> parsed[1], next)
    /\ UNCHANGED <<route, transports, env>>
    /\ UNCHANGED streamVars

\* Lines 115-118.
ParseBufferLimit ==
    ParseIntEnv("FLUENTD_BUFFER_LIMIT", defaultBufferLimit, "bufferLimit",
                "FLUENTD_RETRY_WAIT")

\* Lines 120-123.
ParseRetryWait ==
    ParseIntEnv("FLUENTD_RETRY_WAIT", defaultRetryWait, "retryWait",
                "FLUENTD_MAX_RETRIES")

\* Lines 125-128.
ParseMaxRetries ==
    ParseIntEnv("FLUENTD_MAX_RETRIES", defaultMaxRetries, "maxRetries",
                "FLUENTD_ASYNC_CONNECT")

\* Lines 130-133.
ParseAsyncConnect ==
    ParseBoolEnv("FLUENTD_ASYNC_CONNECT", "asyncConnect",
                 "FLUENTD_SUBSECOND_PRECISION")

\* Lines 135-138.
ParseSubSecondPrecision ==
    ParseBoolEnv("FLUENTD_SUBSECOND_PRECISION", "subSecondPrecision", "New")

\* Variant: the retry wait and the retry count are exchanged.
FluentConfig_RetrySwapped ==
    [ FluentHost         |-> locals["host"],
      FluentPort         |-> locals["portNum"],
      FluentNetwork      |-> defaultProtocol,
      FluentSocketPath   |-> "",
      BufferLimit        |-> locals["bufferLimit"],
      RetryWait          |-> locals["maxRetries"],
      MaxRetry           |-> locals["retryWait"],
      Async              |-> locals["asyncConnect"],
      SubSecondPrecision |-> locals["subSecondPrecision"],
      RequestAck         |-> TRUE ]

\* Variant: the client's network is the transport the route names.
FluentConfig_RouteNetwork ==
    [ FluentHost         |-> locals["host"],
      FluentPort         |-> locals["portNum"],
      FluentNetwork      |-> AdapterTransport(route, defaultProtocol),
      FluentSocketPath   |-> "",
      BufferLimit        |-> locals["bufferLimit"],
      RetryWait          |-> locals["retryWait"],
      MaxRetry           |-> locals["maxRetries"],
      Async              |-> locals["asyncConnect"],
      SubSecondPrecision |-> locals["subSecondPrecision"],
      RequestAck         |-> TRUE ]

\* Lines 140-151.
FluentConfig ==
    [ FluentHost         |-> locals["host"],
      FluentPort         |-> locals["portNum"],
      FluentNetwork      |-> defaultProtocol,
      FluentSocketPath   |-> "",
      BufferLimit        |-> locals["bufferLimit"],
      RetryWait          |-> locals["retryWait"],
      MaxRetry           |-> locals["maxRetries"],
      Async              |-> locals["asyncConnect"],
      SubSecondPrecision |-> locals["subSecondPrecision"],
      RequestAck         |-> TRUE ]

\* Lines 152 and 157-161: fluent.New succeeds and the adapter is returned.
NewOk ==
    /\ npc = "New"
    /\ steps' = Append(steps, [step |-> "New", ok |-> TRUE])
    /\ ret' = [adapter |-> [type           |-> "Adapter",
                            writer         |-> [config |-> FluentConfig],
                            tagPrefix      |-> getenv("TAG_PREFIX", "docker"),
                            tagSuffixLabel |-> getenv("TAG_SUFFIX_LABEL", "")],
               err     |-> Nil]
    /\ npc' = "returned"
    /\ UNCHANGED <<route, transports, env, locals>>
    /\ UNCHANGED streamVars

\* Lines 152-155: fluent.New fails.
NewErr ==
    /\ npc = "New"
    /\ Fail("New", Wrapf(ConnectError, "Unable to create fluentd logger", <<>>))
    /\ UNCHANGED <<route, transports, env>>
    /\ UNCHANGED streamVars

\* Inputs of NewAdapter.
AddressValues ==
    { <<"h", ":", "2", "4">>,
      <<"h">>,
      <<"h", ":">>,
      <<"h", ":", "x">>,
      <<"h", ":", "-", "2">>,
      <<"a", ":", "b", ":", "2">>,
      <<"[", ":", ":", "1", "]", ":", "2", "4">>,
      <<"[", ":", ":", "1", "]">>,
      <<":", "2", "4">>,
      <<>> }

RouteValues ==
    [Adapter : {"fluentd", "fluentd+udp", "fluentd+foo"}, Address : AddressValues]

TransportsValues == { {"tcp", "udp"}, {"udp"} }

IntKeys  == {"FLUENTD_BUFFER_LIMIT", "FLUENTD_RETRY_WAIT", "FLUENTD_MAX_RETRIES"}
BoolKeys == {"FLUENTD_ASYNC_CONNECT", "FLUENTD_SUBSECOND_PRECISION"}
TagKeys  == {"TAG_PREFIX", "TAG_SUFFIX_LABEL"}
EnvKeys  == IntKeys \cup BoolKeys \cup TagKeys

Unset(empty) == [set |-> FALSE, val |-> empty]
SetTo(v)     == [set |-> TRUE, val |-> v]

IntEnvValues ==
    {Unset(<<>>)} \cup
    { SetTo(v) : v \in { <<>>, <<"2", "0", "4", "8">>, <<"a", "b", "c">>, <<"-", "5">> } }

BoolEnvValues ==
    {Unset("")} \cup { SetTo(v) : v \in {"", "true", "F", "yes"} }

PrefixEnvValues == {Unset("")} \cup { SetTo(v) : v \in {"", "app", ".app"} }

LabelEnvValues == {Unset("")} \cup { SetTo(v) : v \in {"", "svc"} }

EnvValues ==
    { e \in
        { ("FLUENTD_BUFFER_LIMIT" :> bl) @@ ("FLUENTD_RETRY_WAIT" :> rw) @@
          ("FLUENTD_MAX_RETRIES" :> mr) @@ ("FLUENTD_ASYNC_CONNECT" :> ac) @@
          ("FLUENTD_SUBSECOND_PRECISION" :> sp) @@ ("TAG_PREFIX" :> tp) @@
          ("TAG_SUFFIX_LABEL" :> tl) :
              bl \in IntEnvValues, rw \in IntEnvValues, mr \in IntEnvValues,
              ac \in BoolEnvValues, sp \in BoolEnvValues,
              tp \in PrefixEnvValues, tl \in LabelEnvValues } :
        Cardinality({k \in EnvKeys : e[k].set}) <= MaxEnvSet }

\* State of the Stream variables while NewAdapter is under study.
StreamIdle ==
    /\ ad = <<>>
    /\ logstream = <<>>
    /\ closed = FALSE
    /\ sent = 0
    /\ received = <<>>
    /\ writerCalls = <<>>
    /\ logs = <<>>
    /\ trace = <<>>
    /\ pc = "idle"

InitNew ==
    /\ route \in RouteValues
    /\ transports \in TransportsValues
    /\ env \in EnvValues
    /\ npc = "Lookup"
    /\ steps = <<>>
    /\ locals = <<>>
    /\ ret = [adapter |-> Nil, err |-> Nil]
    /\ StreamIdle

NextNew ==
    \/ Lookup
    \/ DialOk
    \/ DialErr
    \/ ParseAddress
    \/ ParseBufferLimit
    \/ ParseRetryWait
    \/ ParseMaxRetries
    \/ ParseAsyncConnect
    \/ ParseSubSecondPrecision
    \/ NewOk
    \/ NewErr

SpecNew == InitNew /\ [][NextNew]_vars

(***************************************************************************)
(* Properties of NewAdapter                                                *)
(***************************************************************************)

Returned == npc = "returned"

Executed(step) == \E i \in DOMAIN steps : steps[i].step = step

StepOk(step) == \E i \in DOMAIN steps : steps[i].step = step /\ steps[i].ok

\* A decimal number: digits, at least one, after an optional sign.
Numeric(v) ==
    LET body == IF v # <<>> /\ v[1] \in {"+", "-"} THEN Tail(v) ELSE v
    IN  /\ body # <<>>
        /\ \A i \in DOMAIN body :
              body[i] \in {"0", "1", "2", "3", "4", "5", "6", "7", "8", "9"}

BoolLiterals ==
    {"1", "t", "T", "TRUE", "true", "True", "0", "f", "F", "FALSE", "false", "False"}

\* Variable k holds a value that is not of its kind.
BadValue(k) ==
    /\ env[k].set
    /\ IF k \in IntKeys THEN env[k].val # <<>> /\ ~Numeric(env[k].val)
                        ELSE env[k].val # "" /\ env[k].val \notin BoolLiterals

\* The parse error of variable k's value.
ParseErrorOf(k) ==
    NumError(IF k \in IntKeys THEN "Atoi" ELSE "ParseBool", env[k].val)

\* Position of a step in program order.
StepPos(step) == CHOOSE i \in DOMAIN StepOrder : StepOrder[i] = step

\* C8 as stated: with a value that is not a number (not a boolean) in one of
\* the five variables, NewAdapter returns that variable's parse error, no
\* adapter, and creates no client.
BadEnvFailsWithItsParseError ==
    Returned =>
        \A k \in IntKeys \cup BoolKeys :
            BadValue(k) =>
                /\ ret.adapter = Nil
                /\ ret.err = ParseErrorOf(k)
                /\ ~Executed("New")

\* C8, amended: with such a value NewAdapter returns an error and no adapter
\* and creates no client; the error is that variable's parse error when the
\* lookup, the dial and the address parse succeeded and no variable parsed
\* before it holds a bad value.
BadEnvFailsConstruction ==
    Returned =>
        \A k \in IntKeys \cup BoolKeys :
            BadValue(k) =>
                /\ ret.adapter = Nil
                /\ ret.err # Nil
                /\ ~Executed("New")
                /\ ( /\ StepOk("ParseAddress")
                     /\ \A k2 \in IntKeys \cup BoolKeys :
                           BadValue(k2) => StepPos(k) <= StepPos(k2) )
                   => ret.err = ParseErrorOf(k)

BadEnvFailsConstructionWitness ==
    /\ Returned
    /\ BadValue("FLUENTD_MAX_RETRIES")
    /\ BadValue("FLUENTD_SUBSECOND_PRECISION")
    /\ StepOk("FLUENTD_RETRY_WAIT")
    /\ ret.adapter = Nil
    /\ ret.err = ParseErrorOf("FLUENTD_MAX_RETRIES")

\* C9: the steps run in program order; a failing step is the last one run
\* and NewAdapter returns no adapter and an error with it; NewAdapter
\* returns either an adapter and no error, after all steps succeeded, or no
\* adapter and an error.
AllOrNothing ==
    /\ Len(steps) <= Len(StepOrder)
    /\ \A i \in DOMAIN steps :
          /\ steps[i].step = StepOrder[i]
          /\ ~steps[i].ok =>
                /\ i = Len(steps)
                /\ Returned
                /\ ret.adapter = Nil
                /\ ret.err # Nil
    /\ Returned =>
          \/ /\ ret.adapter # Nil
             /\ ret.err = Nil
             /\ Len(steps) = Len(StepOrder)
             /\ \A i \in DOMAIN steps : steps[i].ok
          \/ /\ ret.adapter = Nil
             /\ ret.err # Nil
             /\ ~steps[Len(steps)].ok
    /\ ~Returned => ret.adapter = Nil /\ ret.err = Nil

AllOrNothingWitness ==
    /\ Returned
    /\ Len(steps) = StepPos("FLUENTD_RETRY_WAIT")
    /\ ~steps[Len(steps)].ok
    /\ ret.adapter = Nil

\* The host part of an address: free of colons and brackets, or bracketed.
HostPart(h) ==
    \/ \A i \in DOMAIN h : h[i] \notin {":", "[", "]"}
    \/ /\ Len(h) >= 2
       /\ h[1] = "["
       /\ h[Len(h)] = "]"
       /\ \A i \in 2..(Len(h) - 1) : h[i] \notin {"[", "]"}

\* The address splits into a host and a numeric port.
WellFormedAddress(a) ==
    \E i \in DOMAIN a :
        /\ a[i] = ":"
        /\ HostPart(SubSeq(a, 1, i - 1))
        /\ Numeric(SubSeq(a, i + 1, Len(a)))

InvalidAddressError(e) ==
    /\ e.type = "withMessage"
    /\ e.msg = "Invalid fluentd-address "
    /\ e.arg = route.Address
    /\ e.cause.type \in {"NumError", "AddrError"}

\* C10 as stated: whenever the address is malformed NewAdapter fails with
\* the invalid-address error wrapping the parse error.
MalformedAddressFails ==
    Returned /\ ~WellFormedAddress(route.Address) =>
        ret.adapter = Nil /\ InvalidAddressError(ret.err)

\* C10, amended: whenever the address is malformed and the transport lookup
\* and the dial succeeded, NewAdapter fails with the invalid-address error
\* wrapping the error of parsing the port text as a number.
MalformedAddressFailsAfterDial ==
    Returned /\ ~WellFormedAddress(route.Address) /\ StepOk("Dial") =>
        /\ ret.adapter = Nil
        /\ InvalidAddressError(ret.err)
        /\ ret.err.cause.type = "NumError"
        /\ ret.err.cause.Func = "Atoi"
        /\ Len(steps) = StepPos("ParseAddress")

MalformedAddressFailsAfterDialWitness ==
    /\ Returned
    /\ route.Address = <<"h", ":", "x">>
    /\ StepOk("Dial")
    /\ InvalidAddressError(ret.err)

\* The number a decimal numeral denotes.
RECURSIVE DecimalValue(_)
DecimalValue(v) ==
    IF v = <<>> THEN 0
    ELSE IF v[1] = "-" THEN 0 - DecimalValue(Tail(v))
    ELSE IF v[1] = "+" THEN DecimalValue(Tail(v))
    ELSE 10 * DecimalValue(SubSeq(v, 1, Len(v) - 1))
         + (CHOOSE d \in 0..9 :
               <<"0", "1", "2", "3", "4", "5", "6", "7", "8", "9">>[d + 1] = v[Len(v)])

\* Variable k is not set.
Omitted(k) == ~env[k].set

\* The value a numeric variable must give: its own when set to a number,
\* the documented default dflt when omitted.
IntSetting(k, dflt, actual) ==
    /\ (env[k].set /\ Numeric(env[k].val)) => actual = DecimalValue(env[k].val)
    /\ Omitted(k) => actual = dflt

\* The value a boolean variable must give.
BoolSetting(k, actual) ==
    /\ (env[k].set /\ env[k].val \in BoolLiterals) =>
          (actual <=> env[k].val \in {"1", "t", "T", "TRUE", "true", "True"})
    /\ Omitted(k) => actual = FALSE

\* C11: the client of every adapter NewAdapter returns is configured, for
\* each of the five values, with the parsed value of its variable when that
\* is set to a valid value and with the documented default when it is
\* omitted.
ConfigFromEnv ==
    Returned /\ ret.adapter # Nil =>
        LET config == ret.adapter.writer.config
        IN  /\ IntSetting("FLUENTD_BUFFER_LIMIT", 1048576, config.BufferLimit)
            /\ IntSetting("FLUENTD_RETRY_WAIT", 1000, config.RetryWait)
            /\ IntSetting("FLUENTD_MAX_RETRIES", 2147483647, config.MaxRetry)
            /\ BoolSetting("FLUENTD_ASYNC_CONNECT", config.Async)
            /\ BoolSetting("FLUENTD_SUBSECOND_PRECISION", config.SubSecondPrecision)

ConfigFromEnvWitness ==
    /\ Returned
    /\ ret.adapter # Nil
    /\ env["FLUENTD_BUFFER_LIMIT"] = SetTo(<<"2", "0", "4", "8">>)
    /\ ret.adapter.writer.config.BufferLimit = 2048
    /\ Omitted("FLUENTD_MAX_RETRIES")
    /\ ret.adapter.writer.config.MaxRetry = 2147483647
    /\ env["FLUENTD_ASYNC_CONNECT"] = SetTo("true")
    /\ ret.adapter.writer.config.Async = TRUE

\* C12: with the route's transport not registered NewAdapter returns the
\* transport-not-found error and has not dialed; with the transport found
\* and the dial failed it returns the dial error itself and has parsed
\* neither the address nor the environment.
LookupAndDialErrors ==
    Returned =>
        /\ AdapterTransport(route, "tcp") \notin transports =>
              /\ ret = [adapter |-> Nil,
                        err |-> ErrorsNew("Unable to find adapter: ", route.Adapter)]
              /\ ~Executed("Dial")
        /\ (Executed("Dial") /\ ~StepOk("Dial")) =>
              /\ AdapterTransport(route, "tcp") \in transports
              /\ ret = [adapter |-> Nil, err |-> DialError]
              /\ Len(steps) = StepPos("Dial")
              /\ locals = <<>>

LookupAndDialErrorsWitness ==
    /\ Returned
    /\ route.Adapter = "fluentd+udp"
    /\ Executed("Dial")
    /\ ret.err = DialError
    /\ ~WellFormedAddress(route.Address)
    /\ BadValue("FLUENTD_BUFFER_LIMIT")

\* C13: the client of every adapter NewAdapter returns requires
\* acknowledgment and uses the network "tcp", whatever transport the route
\* names and whatever the environment holds.
AckAndTcpAlways ==
    Returned /\ ret.adapter # Nil =>
        /\ ret.adapter.writer.config.RequestAck = TRUE
        /\ ret.adapter.writer.config.FluentNetwork = "tcp"

AckAndTcpAlwaysWitness ==
    /\ Returned
    /\ ret.adapter # Nil
    /\ route.Adapter = "fluentd+udp"
    /\ ret.adapter.writer.config.FluentNetwork = "tcp"
    /\ ret.adapter.writer.config.RequestAck = TRUE

(***************************************************************************)
(* Further properties of Adapter.Stream                                    *)
(***************************************************************************)

\* C14: every received message that is not whitespace is posted, also when
\* an equal message was processed before; two calls made for equal messages
\* carry the same tag, timestamp and record, whatever came between them;
\* and no step changes the adapter's fields.
NoCrossMessageState ==
    /\ [](\A n \in DOMAIN received :
              ~WhitespaceOnly(received[n].Data) => PostsFor(n) # {})
    /\ [](\A i, j \in DOMAIN writerCalls :
              received[writerCalls[i].n] = received[writerCalls[j].n] =>
                  /\ writerCalls[i].tag = writerCalls[j].tag
                  /\ writerCalls[i].time = writerCalls[j].time
                  /\ writerCalls[i].record = writerCalls[j].record)
    /\ [][ad' = ad]_vars

NoCrossMessageStateWitness ==
    /\ Len(writerCalls) = 2
    /\ writerCalls[1].n # writerCalls[2].n
    /\ received[writerCalls[1].n] = received[writerCalls[2].n]
    /\ ErrorLogged(writerCalls[1].n)
    /\ writerCalls[1].tag = writerCalls[2].tag

\* Positions in the trace of the events of one kind for message n.
LogEvents(kind, n) ==
    { i \in DOMAIN trace :
          trace[i].ev = "log" /\ trace[i].kind = kind /\ trace[i].n = n }

CallEvents(n) == { i \in DOMAIN trace : trace[i].ev = "call" /\ trace[i].n = n }

ReturnEvents(n, err) ==
    { i \in DOMAIN trace :
          trace[i].ev = "return" /\ trace[i].n = n /\ trace[i].err = err }

\* The log lines of the trace are the lines of the log, in order.
LogOfTrace ==
    LET lines == SelectSeq(trace, LAMBDA e : e.ev = "log")
    IN  /\ Len(lines) = Len(logs)
        /\ \A i \in DOMAIN logs :
              logs[i].kind = lines[i].kind /\ logs[i].n = lines[i].n

\* C17: a message that is not whitespace has one pre-send line, written
\* before its PostWithTime call and carrying the call's tag, timestamp and
\* record, whether the call then succeeds or fails; a skipped message has
\* none; and an error line is written for a message exactly when its call
\* returned an error.
LogLines ==
    /\ LogOfTrace
    /\ \A n \in DOMAIN received :
          IF WhitespaceOnly(received[n].Data)
          THEN LogEvents("send", n) = {}
          ELSE /\ Cardinality(LogEvents("send", n)) = 1
               /\ \A j \in CallEvents(n) : \E i \in LogEvents("send", n) : i < j
               /\ \E i \in DOMAIN logs, j \in DOMAIN writerCalls :
                     /\ logs[i].kind = "send" /\ logs[i].n = n
                     /\ writerCalls[j].n = n
                     /\ logs[i].tag = writerCalls[j].tag
                     /\ logs[i].time = writerCalls[j].time
                     /\ logs[i].record = writerCalls[j].record
    /\ \A n \in DOMAIN received :
          /\ Cardinality(LogEvents("error", n)) = Cardinality(ReturnEvents(n, TRUE))
          /\ ReturnEvents(n, FALSE) # {} => LogEvents("error", n) = {}
          /\ \A i \in LogEvents("error", n) : \E j \in ReturnEvents(n, TRUE) : j < i

LogLinesWitness ==
    /\ Len(received) = 2
    /\ ReturnEvents(1, TRUE) # {}
    /\ ReturnEvents(2, FALSE) # {}
    /\ LogEvents("send", 1) # {}
    /\ LogEvents("send", 2) # {}
    /\ LogEvents("error", 1) # {}
    /\ LogEvents("error", 2) = {}

\* A step of Stream itself.
StreamStep == StreamIterate \/ PostWithTimeOk \/ PostWithTimeErr \/ StreamReturn

\* C18: Stream has not returned while the channel is open, and with the
\* channel open and empty at the head of the loop it can take no step.
OpenStreamNeverReturns ==
    /\ pc = "returned" => closed
    /\ (~closed /\ pc = "range" /\ logstream = <<>>) => ~ENABLED StreamStep

OpenStreamNeverReturnsWitness ==
    /\ ~closed
    /\ pc = "range"
    /\ logstream = <<>>
    /\ ErrorLogged(1)
    /\ SkipLogged(2)

(***************************************************************************)
(* NewAdapter followed by Stream on the adapter it returned                *)
(***************************************************************************)

\* The host runs Stream on the adapter NewAdapter returned.
Start ==
    /\ npc = "returned"
    /\ ret.adapter # Nil
    /\ pc = "idle"
    /\ ad' = [tagPrefix      |-> ret.adapter.tagPrefix,
              tagSuffixLabel |-> ret.adapter.tagSuffixLabel]
    /\ pc' = "range"
    /\ UNCHANGED <<logstream, closed, sent, received, writerCalls, logs, trace>>
    /\ UNCHANGED newVars

\* Messages of the three containers, none of them whitespace.
LifeMsgValues == { m \in MsgValues : m.Source = "stderr" }

\* Environments whose five client variables are unset or set to "".
LifeEnvValues ==
    { e \in EnvValues : \A k \in IntKeys \cup BoolKeys : Len(e[k].val) = 0 }

InitLife ==
    /\ route = [Adapter |-> "fluentd", Address |-> <<"h", ":", "2", "4">>]
    /\ transports = {"tcp", "udp"}
    /\ env \in LifeEnvValues
    /\ npc = "Lookup"
    /\ steps = <<>>
    /\ locals = <<>>
    /\ ret = [adapter |-> Nil, err |-> Nil]
    /\ StreamIdle

NextLife ==
    \/ NextNew
    \/ Start
    \/ (pc # "idle" /\ \E m \in LifeMsgValues : Send(m))
    \/ (pc # "idle" /\ Close)
    \/ StreamIterate
    \/ PostWithTimeOk
    \/ PostWithTimeErr
    \/ StreamReturn

SpecLife == InitLife /\ [][NextLife]_vars

\* The local variable a client variable is parsed into.
LocalOf(k) ==
    CASE k = "FLUENTD_BUFFER_LIMIT"        -> "bufferLimit"
      [] k = "FLUENTD_RETRY_WAIT"          -> "retryWait"
      [] k = "FLUENTD_MAX_RETRIES"         -> "maxRetries"
      [] k = "FLUENTD_ASYNC_CONNECT"       -> "asyncConnect"
      [] k = "FLUENTD_SUBSECOND_PRECISION" -> "subSecondPrecision"

\* The documented default of a client variable.
DocumentedDefault(k) ==
    CASE k = "FLUENTD_BUFFER_LIMIT"        -> 1048576
      [] k = "FLUENTD_RETRY_WAIT"          -> 1000
      [] k = "FLUENTD_MAX_RETRIES"         -> 2147483647
      [] k = "FLUENTD_ASYNC_CONNECT"       -> FALSE
      [] k = "FLUENTD_SUBSECOND_PRECISION" -> FALSE

StartsWithDot(str) == Len(str) > 0 /\ SubSeq(str, 1, 1) = "."

\* A variable that is unset or set to "" parses without error to its
\* default, and the adapter returned has a tag prefix that is not empty.
EmptyReadAsUnset ==
    /\ \A k \in IntKeys \cup BoolKeys :
          (Len(env[k].val) = 0 /\ Executed(k)) =>
              StepOk(k) /\ locals[LocalOf(k)] = DocumentedDefault(k)
    /\ (Returned /\ ret.adapter # Nil) =>
          /\ ret.adapter.tagPrefix =
                IF Len(env["TAG_PREFIX"].val) = 0 THEN "docker"
                                                  ELSE env["TAG_PREFIX"].val
          /\ ret.adapter.tagSuffixLabel = env["TAG_SUFFIX_LABEL"].val
          /\ ret.adapter.tagPrefix # ""
    /\ pc # "idle" => ad.tagPrefix = ret.adapter.tagPrefix

\* C19 as stated: an empty variable is read as unset, the prefix of an
\* adapter NewAdapter built is not empty, and no tag it emits starts with ".".
EmptyEnvAndNoLeadingDot ==
    /\ EmptyReadAsUnset
    /\ \A i \in DOMAIN writerCalls : ~StartsWithDot(writerCalls[i].tag)

\* C19, amended: an empty variable is read as unset, the prefix of an
\* adapter NewAdapter built is not empty, every tag it emits is that prefix,
\* ".", and the suffix, and a tag starts with "." only when the value of
\* TAG_PREFIX does.
EmptyEnvAndPrefixedTags ==
    /\ EmptyReadAsUnset
    /\ \A i \in DOMAIN writerCalls :
          /\ ad.tagPrefix # ""
          /\ writerCalls[i].tag =
                ad.tagPrefix \o "." \o ExpectedSuffix(received[writerCalls[i].n])
          /\ StartsWithDot(writerCalls[i].tag) =>
                StartsWithDot(env["TAG_PREFIX"].val)

EmptyEnvAndPrefixedTagsWitness ==
    /\ env["TAG_PREFIX"] = SetTo("")
    /\ env["FLUENTD_BUFFER_LIMIT"] = SetTo(<<>>)
    /\ \E i \in DOMAIN writerCalls : writerCalls[i].tag = "docker.h1"
    /\ \E i \in DOMAIN writerCalls : writerCalls[i].tag = "docker."

====
